---- MODULE Spec2Model ----
(***************************************************************************)
(* Quiz application: scoring of a submission, persistence of the attempt,  *)
(* per-quiz statistics (update_quiz_stats), quiz deletion and the user     *)
(* leaderboard (get_user_leaderboard).                                     *)
(*                                                                         *)
(* Every SQL statement is one atomic step; the awaits of a handler are the *)
(* points where other clients interleave.  AVG(...) is PostgreSQL's        *)
(* numeric division: the quotient rounded to 16 decimal places (20 when    *)
(* it is below 1), kept as a whole part and base-10000 fraction digits.    *)
(***************************************************************************)
EXTENDS Integers, Sequences, FiniteSets, TLC

\* ---------------------------------------------------------------- bounds
MaxQ == 1            \* questions of a quiz in the concurrent specification
MaxScoreQ == 40      \* questions of the quiz in the scoring specification
MaxDirectCalls == 1  \* update_quiz_stats calls issued outside a submission
MaxSaves == 1        \* saveQuiz runs of the EditQuiz page
MaxRetakes == 1      \* times a user takes a quiz again from the results page
MaxPerUser == 2      \* full-score attempts of one user in the ranking specification
Today == 400         \* the day on which the model runs

\* -------------------------------------------------------------- identities
Owner == "u1"
Users == {"u1", "u2", "u3", "u4"}
Clients == {"c1", "c2"}
ClientUser == [c1 |-> "u2", c2 |-> "u3"]
QuizIds == {"q1"}
NumOptions == 2

\* ------------------------------------------------- IEEE-754 double numbers
\* A finite positive double is mant * 2^exp with a 53-bit mantissa kept as
\* five limbs <<1, l1, l2, l3, l4>> of 13 bits each (1 + 4 * 13 = 53).
RECURSIVE Pow2(_)
Pow2(k) == IF k = 0 THEN 1 ELSE 2 * Pow2(k - 1)

LimbBits == 13
Limb == Pow2(LimbBits)

\* JavaScript NaN as the value of a computed score: outside every number
\* range, and serialised as null by JSON.stringify.
NaN == 0 - 1
FNaN == [cls |-> "nan"]
FZero == [cls |-> "zero"]
Fin(m, e) == [cls |-> "fin", mant |-> m, exp |-> e]

RECURSIVE NormShift(_, _)
NormShift(c, n) == IF c >= n THEN 0 ELSE 1 + NormShift(2 * c, n)

RECURSIVE DivLimbs(_, _, _)
DivLimbs(r, n, k) ==
  IF k = 0 THEN <<>>
  ELSE <<(r * Limb) \div n>> \o DivLimbs((r * Limb) % n, n, k - 1)

RECURSIVE DivRem(_, _, _)
DivRem(r, n, k) == IF k = 0 THEN r ELSE DivRem((r * Limb) % n, n, k - 1)

RECURSIVE IncLimbs(_)
IncLimbs(m) ==
  IF Len(m) = 1 THEN <<m[1] + 1>>
  ELSE IF m[Len(m)] + 1 < Limb THEN SubSeq(m, 1, Len(m) - 1) \o <<m[Len(m)] + 1>>
  ELSE IncLimbs(SubSeq(m, 1, Len(m) - 1)) \o <<0>>

\* round to nearest, ties to even: the final increment and renormalisation
RoundMant(m, e, up) ==
  LET inc == IF up THEN IncLimbs(m) ELSE m
  IN IF inc[1] = 2 THEN Fin(<<1, 0, 0, 0, 0>>, e + 1) ELSE Fin(inc, e)

\* the double c / n for integers 0 <= c <= n
FDiv(c, n) ==
  IF n = 0 THEN FNaN
  ELSE IF c = 0 THEN FZero
  ELSE LET s == NormShift(c, n)
           r0 == c * Pow2(s) - n
           m == <<1>> \o DivLimbs(r0, n, 4)
           rr == DivRem(r0, n, 4)
           up == 2 * rr > n \/ (2 * rr = n /\ m[5] % 2 = 1)
       IN RoundMant(m, 0 - s - 52, up)

RECURSIVE MulLimbs(_, _, _)
MulLimbs(m, k, carry) ==
  IF Len(m) = 1 THEN <<m[1] * k + carry>>
  ELSE LET t == m[Len(m)] * k + carry
       IN MulLimbs(SubSeq(m, 1, Len(m) - 1), k, t \div Limb) \o <<t % Limb>>

RECURSIVE BitLen(_)
BitLen(x) == IF x = 0 THEN 0 ELSE 1 + BitLen(x \div 2)

RECURSIVE ShiftRight(_, _, _)
ShiftRight(p, k, i) ==
  IF i > Len(p) THEN <<>>
  ELSE <<(IF i = 1 THEN 0 ELSE (p[i - 1] % Pow2(k)) * Pow2(LimbBits - k))
          + (p[i] \div Pow2(k))>>
       \o ShiftRight(p, k, i + 1)

\* the double x * k for a small positive integer k
FMul(x, k) ==
  IF x.cls # "fin" THEN x
  ELSE LET p == MulLimbs(x.mant, k, 0)
           d == BitLen(p[1]) - 1
           keep == IF d = 0 THEN p ELSE ShiftRight(p, d, 1)
           guard == IF d = 0 THEN 0 ELSE (p[5] \div Pow2(d - 1)) % 2
           sticky == d > 1 /\ p[5] % Pow2(d - 1) # 0
           up == guard = 1 /\ (sticky \/ keep[5] % 2 = 1)
       IN RoundMant(keep, x.exp + d, up)

\* Math.round: nearest integer, a fraction of exactly .5 goes up
\* (for 0 <= x < 2^13, which covers every percentage)
MathRound(x) ==
  IF x.cls = "nan" THEN NaN
  ELSE IF x.cls = "zero" THEN 0
  ELSE LET ib == 53 + x.exp
           top == x.mant[1] * Limb + x.mant[2]
       IN IF ib < 0 THEN 0
          ELSE IF ib = 0 THEN 1
          ELSE (top \div Pow2(LimbBits + 1 - ib))
               + ((top \div Pow2(LimbBits - ib)) % 2)

\* ------------------------------------------------------------------ scoring
\* answers is a function from the answered question ids to option indexes
\* a count that reads a missing answer as option 0
correctAnswers_missingAsZero(questions, answers) ==
  Cardinality({i \in 1..Len(questions) :
                 (IF questions[i].id \in DOMAIN answers
                  THEN answers[questions[i].id] ELSE 0) = questions[i].correct_answer})

correctAnswers(questions, answers) ==
  Cardinality({i \in 1..Len(questions) :
                 /\ questions[i].id \in DOMAIN answers
                 /\ answers[questions[i].id] = questions[i].correct_answer})

\* a score that leaves out the division by the number of questions
score_noDivision(questions, answers) ==
  IF Len(questions) = 0 THEN NaN ELSE correctAnswers(questions, answers) * 100

score(questions, answers) ==
  MathRound(FMul(FDiv(correctAnswers(questions, answers), Len(questions)), 100))

\* ----------------------------------------------------------------- numeric
\* A numeric value is whole + 0.f1 f2 .. in base-10000 digits without
\* trailing zero digits; whole = NaN stands for SQL NULL.
NBASE == 10000
DEC_DIGITS == 4
NUMERIC_MIN_SIG_DIGITS == 16

NullNumeric == [whole |-> NaN, frac |-> <<>>]

\* select_div_scale for integer operands n < NBASE * NBASE and 0 < d < NBASE
select_div_scale(n, d) ==
  LET weight1 == IF n >= NBASE THEN 1 ELSE 0
      firstdigit1 == IF n >= NBASE THEN n \div NBASE ELSE n
      qweight == weight1 - (IF firstdigit1 <= d THEN 1 ELSE 0)
  IN NUMERIC_MIN_SIG_DIGITS - qweight * DEC_DIGITS

\* k fraction digits of r / d for r < d, and the remainder after them
RECURSIVE FracDigits(_, _, _)
FracDigits(r, d, k) ==
  IF k = 0 THEN <<>>
  ELSE <<(r * NBASE) \div d>> \o FracDigits((r * NBASE) % d, d, k - 1)

RECURSIVE FracRem(_, _, _)
FracRem(r, d, k) == IF k = 0 THEN r ELSE FracRem((r * NBASE) % d, d, k - 1)

\* add one unit in the last fraction digit
RECURSIVE IncFrac(_)
IncFrac(f) ==
  IF f = <<>> THEN [frac |-> <<>>, carry |-> 1]
  ELSE IF f[Len(f)] + 1 < NBASE
       THEN [frac |-> SubSeq(f, 1, Len(f) - 1) \o <<f[Len(f)] + 1>>, carry |-> 0]
       ELSE LET p == IncFrac(SubSeq(f, 1, Len(f) - 1))
            IN [frac |-> p.frac \o <<0>>, carry |-> p.carry]

RECURSIVE StripZeros(_)
StripZeros(f) ==
  IF f # <<>> /\ f[Len(f)] = 0 THEN StripZeros(SubSeq(f, 1, Len(f) - 1)) ELSE f

\* numeric_div: n / d rounded half up at select_div_scale decimal places
Numeric(n, d) ==
  LET k == select_div_scale(n, d) \div DEC_DIGITS
      f == FracDigits(n % d, d, k)
      p == IF 2 * FracRem(n % d, d, k) >= d THEN IncFrac(f)
           ELSE [frac |-> f, carry |-> 0]
  IN [whole |-> (n \div d) + p.carry, frac |-> StripZeros(p.frac)]

RECURSIVE SumScore(_)
SumScore(rows) ==
  IF rows = {} THEN 0
  ELSE LET r == CHOOSE x \in rows : TRUE IN r.score + SumScore(rows \ {r})

\* AVG(score): NULL over no rows
AVG(rows) ==
  IF rows = {} THEN NullNumeric ELSE Numeric(SumScore(rows), Cardinality(rows))

\* -------------------------------------------------------------------- state
VARIABLES
  quizzes,        \* table quizzes: function from the ids of the existing rows
  questions,      \* table questions: per quiz id, its rows by order_index
  quiz_attempts,  \* table quiz_attempts: set of rows
  now,            \* NOW() of the store, in days
  nextId,         \* number of quiz_attempts ids handed out by gen_random_uuid
  client,         \* per TakeQuiz page: component state and position
  del,            \* the owner's MyQuizzes page: position inside deleteQuiz
  directCalls,    \* update_quiz_stats calls issued outside a submission
  rpcDone,        \* per quiz: update_quiz_stats executions that updated it
  leaderboard,    \* rows returned by the last get_user_leaderboard call
  timeframe,      \* Leaderboard page: the selected timeframe
  edit,           \* the owner's EditQuiz page: form and position inside saveQuiz
  nextQuestionId, \* number of questions ids handed out by gen_random_uuid
  create          \* the CreateQuiz page: form and position inside saveQuiz

vars == <<quizzes, questions, quiz_attempts, now, nextId, client, del,
          directCalls, rpcDone, leaderboard, timeframe, edit, nextQuestionId,
          create>>

AttemptsOf(rows, q) == {r \in rows : r.quiz_id = q}

QuizRow(n) ==
  [created_by |-> Owner, is_published |-> TRUE, total_questions |-> n,
   total_attempts |-> 0, average_score |-> Numeric(0, 1)]

\* question rows 1..n of a quiz; the correct option cycles through the options
AllOptions == [j \in 1..NumOptions |-> "a"]

QuestionRows(n) ==
  [i \in 1..n |-> [id |-> i, options |-> AllOptions,
                   correct_answer |-> (i - 1) % NumOptions, order_index |-> i - 1]]

\* the ids a questions row can have
QuestionIds == 1..(MaxQ * (MaxSaves + 1))

NoAnswers == [x \in {} |-> 0]

\* QuizResults page: no attempt loaded
NoAttempt == [id |-> 0]

ClientInit ==
  [pc |-> "loading", quiz |-> "none", questions |-> <<>>, answers |-> NoAnswers,
   score |-> 0, attempt |-> 0, toast |-> "none", warned |-> FALSE,
   route |-> [page |-> "quiz", attempt |-> 0], rpcInvoked |-> FALSE,
   updateError |-> FALSE, result |-> NoAttempt, resultQuestions |-> <<>>]

DelInit == [pc |-> "idle", quiz |-> "none", toast |-> "none"]

\* CreateQuiz page: nothing saved yet; ids is the number of quizzes ids handed
\* out by gen_random_uuid
CreateInit == [pc |-> "form", valid |-> <<>>, isPublished |-> FALSE, test |-> 0,
               quiz |-> 0, saves |-> 0, ids |-> 0, toast |-> "none"]

EditInit == [pc |-> "closed", quiz |-> "none", valid |-> <<>>, saves |-> 0,
             toast |-> "none"]

Init ==
  /\ quizzes = [q \in QuizIds |-> QuizRow(MaxQ)]
  /\ questions = [q \in QuizIds |-> QuestionRows(MaxQ)]
  /\ quiz_attempts = {}
  /\ now = Today
  /\ nextId = 0
  /\ client = [c \in Clients |-> ClientInit]
  /\ del = DelInit
  /\ directCalls = 0
  /\ rpcDone = [q \in QuizIds |-> 0]
  /\ leaderboard = <<>>
  /\ timeframe = "all"
  /\ edit = EditInit
  /\ create = CreateInit
  /\ nextQuestionId = MaxQ

\* ------------------------------------------------------- update_quiz_stats
\* UPDATE quizzes SET total_attempts = total_attempts + 1,
\*   average_score = (SELECT AVG(score) FROM quiz_attempts WHERE quiz_id = ..)
\* WHERE id = quiz_id; new_score is not used by the body.
\* a function that stores the newest score as the average
update_quiz_stats_lastScore(qz, atts, quiz_id, new_score) ==
  IF quiz_id \notin DOMAIN qz THEN qz
  ELSE [qz EXCEPT ![quiz_id].total_attempts = @ + 1,
                  ![quiz_id].average_score = Numeric(new_score, 1)]

\* a function that counts the attempt rows instead of incrementing
update_quiz_stats_recount(qz, atts, quiz_id, new_score) ==
  IF quiz_id \notin DOMAIN qz THEN qz
  ELSE [qz EXCEPT ![quiz_id].total_attempts = Cardinality(AttemptsOf(atts, quiz_id)),
                  ![quiz_id].average_score = AVG(AttemptsOf(atts, quiz_id))]

\* a function that folds the new score into the stored average
update_quiz_stats_incremental(qz, atts, quiz_id, new_score) ==
  IF quiz_id \notin DOMAIN qz THEN qz
  ELSE LET old == qz[quiz_id].average_score
           n == qz[quiz_id].total_attempts
       IN [qz EXCEPT ![quiz_id].total_attempts = @ + 1,
                     ![quiz_id].average_score =
                        IF old = NullNumeric THEN Numeric(new_score, 1)
                        ELSE Numeric(old.whole * n + new_score, n + 1)]

\* an UPDATE without its WHERE id = quiz_id
update_quiz_stats_allQuizzes(qz, atts, quiz_id, new_score) ==
  [q \in DOMAIN qz |->
     [qz[q] EXCEPT !.total_attempts = @ + 1,
                   !.average_score = AVG(AttemptsOf(atts, quiz_id))]]

update_quiz_stats(qz, atts, quiz_id, new_score) ==
  IF quiz_id \notin DOMAIN qz THEN qz
  ELSE [qz EXCEPT ![quiz_id].total_attempts = @ + 1,
                  ![quiz_id].average_score = AVG(AttemptsOf(atts, quiz_id))]

StatsDone(done, qz, quiz_id) ==
  IF quiz_id \in DOMAIN qz THEN [done EXCEPT ![quiz_id] = @ + 1] ELSE done

\* an authenticated user calls the function through the API (GRANT EXECUTE)
update_quiz_stats_rpc(u, q, s) ==
  /\ directCalls < MaxDirectCalls
  /\ directCalls' = directCalls + 1
  /\ quizzes' = update_quiz_stats(quizzes, quiz_attempts, q, s)
  /\ rpcDone' = StatsDone(rpcDone, quizzes, q)
  /\ UNCHANGED <<questions, quiz_attempts, now, nextId, client, del, leaderboard,
                 timeframe, edit, nextQuestionId,
                 create>>

\* ------------------------------------------------------------- TakeQuiz page
\* fetchQuizData: the quiz must exist and be published, else the page leaves
fetchQuizData(c, q) ==
  /\ client[c].pc = "loading"
  /\ client[c].quiz \in {"none", q}
  /\ IF q \in DOMAIN quizzes /\ quizzes[q].is_published
     THEN client' = [client EXCEPT ![c].pc = "intro", ![c].quiz = q,
                                   ![c].questions = questions[q]]
     ELSE client' = [client EXCEPT ![c].pc = "left", ![c].toast = "error",
                                   ![c].route = [page |-> "quizzes", attempt |-> 0]]
  /\ UNCHANGED <<quizzes, questions, quiz_attempts, now, nextId, del,
                 directCalls, rpcDone, leaderboard, timeframe, edit, nextQuestionId,
                 create>>

\* the start button is rendered only when the page has a quiz with questions
\* a page that renders the start button for a quiz without questions
startQuiz_noQuestions(c) ==
  /\ client[c].pc = "intro"
  /\ client' = [client EXCEPT ![c].pc = "taking"]
  /\ UNCHANGED <<quizzes, questions, quiz_attempts, now, nextId, del,
                 directCalls, rpcDone, leaderboard, timeframe, edit, nextQuestionId,
                 create>>

startQuiz(c) ==
  /\ client[c].pc = "intro"
  /\ Len(client[c].questions) # 0
  /\ client' = [client EXCEPT ![c].pc = "taking"]
  /\ UNCHANGED <<quizzes, questions, quiz_attempts, now, nextId, del,
                 directCalls, rpcDone, leaderboard, timeframe, edit, nextQuestionId,
                 create>>

SetAnswer(answers, questionId, answerIndex) ==
  [x \in DOMAIN answers \cup {questionId} |->
     IF x = questionId THEN answerIndex ELSE answers[x]]

handleAnswerSelect(c, questionId, answerIndex) ==
  /\ client[c].pc = "taking"
  /\ \E i \in 1..Len(client[c].questions) : client[c].questions[i].id = questionId
  /\ client' = [client EXCEPT ![c].answers = SetAnswer(@, questionId, answerIndex)]
  /\ UNCHANGED <<quizzes, questions, quiz_attempts, now, nextId, del,
                 directCalls, rpcDone, leaderboard, timeframe, edit, nextQuestionId,
                 create>>

\* -------------------------------------------------------- handleSubmitQuiz
\* the row sent by the insert; quizzes has no time_limit column, so
\* quiz.time_limit is undefined and timeTaken is 0
AttemptRow(id, cl, u, t) ==
  [id |-> id, quiz_id |-> cl.quiz, user_id |-> u,
   score |-> score(cl.questions, cl.answers),
   total_questions |-> Len(cl.questions), time_taken |-> 0,
   answers |-> cl.answers, completed_at |-> t]

\* quiz_attempts constraints: quiz_id references an existing quiz, score is
\* NOT NULL (NaN is sent as null), and the insert policy user_id = auth.uid()
InsertAccepted(row, u, qz) ==
  /\ row.quiz_id \in DOMAIN qz
  /\ row.score # NaN
  /\ row.user_id = u

\* after the insert returned without error the page goes on to the rpc
InsertSucceeded(cl, row) ==
  [cl EXCEPT !.pc = "stats", !.score = row.score, !.attempt = row.id,
             !.rpcInvoked = TRUE]

\* if (error) throw error, caught: toast.error('Failed to submit quiz')
\* a page that does not throw on the insert error and goes on to the rpc
InsertFailed_continue(cl) ==
  [cl EXCEPT !.pc = "stats", !.rpcInvoked = TRUE]

\* a page whose scoring loop consumes the answers it has counted
InsertFailed_answersConsumed(cl) ==
  [cl EXCEPT !.toast = "error", !.answers = NoAnswers]

InsertFailed(cl) ==
  [cl EXCEPT !.toast = "error"]

\* after the rpc returned: warn on updateError, then success toast and
\* navigation to the results of the attempt
\* a page that treats updateError like the insert error
StatsReturned_throw(cl, updateError) ==
  IF updateError
  THEN [cl EXCEPT !.pc = "results", !.updateError = TRUE, !.toast = "error"]
  ELSE [cl EXCEPT !.pc = "results", !.toast = "success",
                  !.route = [page |-> "results", attempt |-> cl.attempt]]

StatsReturned(cl, updateError) ==
  [cl EXCEPT !.pc = "results", !.updateError = updateError,
             !.warned = updateError, !.toast = "success",
             !.route = [page |-> "results", attempt |-> cl.attempt]]

\* first part of handleSubmitQuiz: score computation and the insert
\* an insert that replaces the user's earlier attempt for the quiz
SubmitInsert_upsert(c) ==
  /\ client[c].pc = "taking"
  /\ LET row == AttemptRow(nextId + 1, client[c], ClientUser[c], now)
         earlier == {r \in quiz_attempts :
                       r.user_id = row.user_id /\ r.quiz_id = row.quiz_id}
     IN \/ /\ InsertAccepted(row, ClientUser[c], quizzes)
           /\ quiz_attempts' = (quiz_attempts \ earlier) \cup {row}
           /\ nextId' = nextId + 1
           /\ client' = [client EXCEPT ![c] = InsertSucceeded(@, row)]
        \/ /\ client' = [client EXCEPT ![c] = InsertFailed(@)]
           /\ UNCHANGED <<quiz_attempts, nextId>>
  /\ UNCHANGED <<quizzes, questions, now, del, directCalls, rpcDone, leaderboard,
                 timeframe, edit, nextQuestionId,
                 create>>

\* a handler that calls update_quiz_stats before it looks at the insert error
SubmitInsert_statsFirst(c) ==
  /\ client[c].pc = "taking"
  /\ LET row == AttemptRow(nextId + 1, client[c], ClientUser[c], now)
     IN \/ /\ InsertAccepted(row, ClientUser[c], quizzes)
           /\ quiz_attempts' = quiz_attempts \cup {row}
           /\ nextId' = nextId + 1
           /\ client' = [client EXCEPT ![c] = InsertSucceeded(@, row)]
           /\ UNCHANGED <<quizzes, rpcDone>>
        \/ /\ client' = [client EXCEPT ![c] = InsertFailed(@)]
           /\ quizzes' = update_quiz_stats(quizzes, quiz_attempts, client[c].quiz, 0)
           /\ rpcDone' = StatsDone(rpcDone, quizzes, client[c].quiz)
           /\ UNCHANGED <<quiz_attempts, nextId>>
  /\ UNCHANGED <<questions, now, del, directCalls, leaderboard,
                 timeframe, edit, nextQuestionId, create>>

SubmitInsert(c) ==
  /\ client[c].pc = "taking"
  /\ LET row == AttemptRow(nextId + 1, client[c], ClientUser[c], now)
     IN \/ /\ InsertAccepted(row, ClientUser[c], quizzes)
           /\ quiz_attempts' = quiz_attempts \cup {row}
           /\ nextId' = nextId + 1
           /\ client' = [client EXCEPT ![c] = InsertSucceeded(@, row)]
        \/ /\ client' = [client EXCEPT ![c] = InsertFailed(@)]
           /\ UNCHANGED <<quiz_attempts, nextId>>
  /\ UNCHANGED <<quizzes, questions, now, del, directCalls, rpcDone, leaderboard,
                 timeframe, edit, nextQuestionId,
                 create>>

\* second part of handleSubmitQuiz: the update_quiz_stats rpc and what follows
SubmitStats(c) ==
  /\ client[c].pc = "stats"
  /\ \/ /\ quizzes' = update_quiz_stats(quizzes, quiz_attempts, client[c].quiz,
                                        client[c].score)
        /\ rpcDone' = StatsDone(rpcDone, quizzes, client[c].quiz)
        /\ client' = [client EXCEPT ![c] = StatsReturned(@, FALSE)]
     \/ /\ client' = [client EXCEPT ![c] = StatsReturned(@, TRUE)]
        /\ UNCHANGED <<quizzes, rpcDone>>
  /\ UNCHANGED <<questions, quiz_attempts, now, nextId, del, directCalls,
                 leaderboard,
                 timeframe, edit, nextQuestionId,
                 create>>

\* -------------------------------------------------------- QuizResults page
\* quiz_attempts may be read by the user who made the attempt and by the
\* creator of the quiz
AttemptsSelectPolicy(u, row, qz) ==
  \/ row.user_id = u
  \/ row.quiz_id \in DOMAIN qz /\ qz[row.quiz_id].created_by = u

\* questions may be read for published quizzes and by the creator of the quiz
QuestionsSelectPolicy(u, q, qz) ==
  q \in DOMAIN qz /\ (qz[q].is_published \/ qz[q].created_by = u)

ResultsFailed(cl) ==
  [cl EXCEPT !.pc = "left", !.toast = "error",
             !.route = [page |-> "quizzes", attempt |-> 0]]

\* a page that scores the stored answers again over the questions the quiz
\* has when the results are read
fetchResults_attempt_rescored(c) ==
  /\ client[c].pc = "results"
  /\ client[c].route.page = "results"
  /\ LET found == {r \in quiz_attempts :
                     /\ r.id = client[c].route.attempt
                     /\ AttemptsSelectPolicy(ClientUser[c], r, quizzes)}
     IN \/ \E r \in found :
             client' = [client EXCEPT
                          ![c].pc = "results_questions",
                          ![c].result =
                             [r EXCEPT !.score = score(questions[r.quiz_id], r.answers)]]
        \/ client' = [client EXCEPT ![c] = ResultsFailed(@)]
  /\ UNCHANGED <<quizzes, questions, quiz_attempts, now, nextId, del,
                 directCalls, rpcDone, leaderboard, timeframe, edit, nextQuestionId,
                 create>>

\* fetchResults, first statement: the attempt with id = attemptId, .single()
fetchResults_attempt(c) ==
  /\ client[c].pc = "results"
  /\ client[c].route.page = "results"
  /\ LET found == {r \in quiz_attempts :
                     /\ r.id = client[c].route.attempt
                     /\ AttemptsSelectPolicy(ClientUser[c], r, quizzes)}
     IN \/ \E r \in found :
             client' = [client EXCEPT ![c].pc = "results_questions", ![c].result = r]
        \/ client' = [client EXCEPT ![c] = ResultsFailed(@)]
  /\ UNCHANGED <<quizzes, questions, quiz_attempts, now, nextId, del,
                 directCalls, rpcDone, leaderboard, timeframe, edit, nextQuestionId,
                 create>>

\* fetchResults, second statement: the questions of the quiz, then the page
\* shows the attempt
fetchResults_questions(c) ==
  /\ client[c].pc = "results_questions"
  /\ \/ client' = [client EXCEPT
                     ![c].pc = "shown",
                     ![c].resultQuestions =
                        IF QuestionsSelectPolicy(ClientUser[c], client[c].quiz, quizzes)
                        THEN questions[client[c].quiz] ELSE <<>>]
     \/ client' = [client EXCEPT ![c] = [ResultsFailed(@) EXCEPT !.result = NoAttempt]]
  /\ UNCHANGED <<quizzes, questions, quiz_attempts, now, nextId, del,
                 directCalls, rpcDone, leaderboard, timeframe, edit, nextQuestionId,
                 create>>

\* the number of correct answers that the shown results page counts over the
\* questions it has fetched
QuizResults_correctAnswers(cl) == correctAnswers(cl.resultQuestions, cl.result.answers)

\* the Retake Quiz link of the shown results: a new TakeQuiz page for the
\* quiz of the attempt
retakeQuiz(c) ==
  /\ client[c].pc = "shown"
  /\ nextId <= MaxRetakes
  /\ client' = [client EXCEPT ![c] = [ClientInit EXCEPT !.quiz = client[c].result.quiz_id]]
  /\ UNCHANGED <<quizzes, questions, quiz_attempts, now, nextId, del,
                 directCalls, rpcDone, leaderboard, timeframe, edit, nextQuestionId,
                 create>>

\* ----------------------------------------------------------------- deleteQuiz
\* row level security: quiz_attempts has SELECT and INSERT policies only, so
\* a DELETE issued through the API sees no row
\* a policy that lets the owner of the quizzes delete attempts
AttemptsDeletePolicy_owner(u, row) == u = Owner

AttemptsDeletePolicy(u, row) == FALSE

\* questions may be deleted by the creator of their quiz
QuestionsDeletePolicy(u, q, qz) == q \in DOMAIN qz /\ qz[q].created_by = u

QuizzesDeletePolicy(u, q, qz) == q \in DOMAIN qz /\ qz[q].created_by = u

\* a deleteQuiz that goes on to its next statement after an error
DeleteFailed_continue ==
  [del EXCEPT !.pc = IF del.pc = "idle" THEN "attempts"
                     ELSE IF del.pc = "attempts" THEN "quiz" ELSE "idle",
              !.toast = "error"]

\* catch: the error toast, and no further statement of deleteQuiz runs
DeleteFailed == [del EXCEPT !.pc = "idle", !.toast = "error"]

\* deleteQuiz, first statement: delete the questions of the quiz
deleteQuiz_questions(q) ==
  /\ del.pc = "idle"
  /\ q \in DOMAIN quizzes
  /\ \/ /\ questions' = IF QuestionsDeletePolicy(Owner, q, quizzes)
                        THEN [questions EXCEPT ![q] = <<>>] ELSE questions
        /\ del' = [del EXCEPT !.pc = "attempts", !.quiz = q, !.toast = "none"]
     \/ /\ del' = DeleteFailed
        /\ UNCHANGED questions
  /\ UNCHANGED <<quizzes, quiz_attempts, now, nextId, client, directCalls,
                 rpcDone, leaderboard,
                 timeframe, edit, nextQuestionId,
                 create>>

\* deleteQuiz, second statement: delete the attempts of the quiz
deleteQuiz_attempts ==
  /\ del.pc = "attempts"
  /\ \/ /\ quiz_attempts' = {r \in quiz_attempts :
                               ~(r.quiz_id = del.quiz /\ AttemptsDeletePolicy(Owner, r))}
        /\ del' = [del EXCEPT !.pc = "quiz"]
     \/ /\ del' = DeleteFailed
        /\ UNCHANGED quiz_attempts
  /\ UNCHANGED <<quizzes, questions, now, nextId, client, directCalls, rpcDone,
                 leaderboard,
                 timeframe, edit, nextQuestionId,
                 create>>

\* deleteQuiz, third statement: delete the quiz row; questions and attempts
\* reference it ON DELETE CASCADE
deleteQuiz_quiz ==
  /\ del.pc = "quiz"
  /\ \/ /\ IF QuizzesDeletePolicy(Owner, del.quiz, quizzes)
           THEN /\ quizzes' = [q \in DOMAIN quizzes \ {del.quiz} |-> quizzes[q]]
                /\ questions' = [questions EXCEPT ![del.quiz] = <<>>]
                /\ quiz_attempts' = {r \in quiz_attempts : r.quiz_id # del.quiz}
           ELSE UNCHANGED <<quizzes, questions, quiz_attempts>>
        /\ del' = [del EXCEPT !.pc = "idle", !.toast = "success"]
     \/ /\ del' = DeleteFailed
        /\ UNCHANGED <<quizzes, questions, quiz_attempts>>
  /\ UNCHANGED <<now, nextId, client, directCalls, rpcDone, leaderboard,
                 timeframe, edit, nextQuestionId,
                 create>>

\* ------------------------------------------------------ togglePublishStatus
\* UPDATE quizzes SET is_published = NOT currentStatus WHERE id = quizId;
\* currentStatus is what the MyQuizzes list last showed
QuizzesUpdatePolicy(u, q, qz) == q \in DOMAIN qz /\ qz[q].created_by = u

togglePublishStatus(quizId, currentStatus) ==
  /\ \/ /\ quizzes' = IF QuizzesUpdatePolicy(Owner, quizId, quizzes)
                      THEN [quizzes EXCEPT ![quizId].is_published = ~currentStatus]
                      ELSE quizzes
        /\ del' = [del EXCEPT !.toast = "success"]
     \/ /\ del' = [del EXCEPT !.toast = "error"]
        /\ UNCHANGED quizzes
  /\ UNCHANGED <<questions, quiz_attempts, now, nextId, client, directCalls,
                 rpcDone, leaderboard, timeframe, edit, nextQuestionId,
                 create>>

\* ------------------------------------------------------------ EditQuiz page
\* fetchQuizData of the EditQuiz page: the quiz must be the user's own
EditQuiz_fetchQuizData(q) ==
  /\ edit.pc = "closed"
  /\ IF q \in DOMAIN quizzes /\ quizzes[q].created_by = Owner
     THEN edit' = [edit EXCEPT !.pc = "form", !.quiz = q, !.toast = "none"]
     ELSE edit' = [edit EXCEPT !.toast = "error"]
  /\ UNCHANGED <<quizzes, questions, quiz_attempts, now, nextId, client, del,
                 directCalls, rpcDone, leaderboard, timeframe, nextQuestionId,
                 create>>

\* the valid questions of a form, by the correct_answer they carry: a form
\* of 1..MaxQ questions whose correct option cycles through the options
Forms == {[i \in 1..n |-> (i - 1) % NumOptions] : n \in 1..MaxQ}

SaveFailed == [edit EXCEPT !.pc = "form", !.toast = "error"]

\* saveQuiz, first statement: update the quiz row; the other columns of the
\* row (total_attempts, average_score) are not part of the update
\* a save that writes the whole row, statistics included, from the form
saveQuiz_quiz_wholeRow(isPublished, validQuestions) ==
  /\ edit.pc = "form"
  /\ edit.saves < MaxSaves
  /\ Len(validQuestions) # 0
  /\ quizzes' = IF QuizzesUpdatePolicy(Owner, edit.quiz, quizzes)
                THEN [quizzes EXCEPT
                        ![edit.quiz] = [QuizRow(Len(validQuestions)) EXCEPT
                                          !.is_published = isPublished]]
                ELSE quizzes
  /\ edit' = [edit EXCEPT !.pc = "delete", !.valid = validQuestions,
                          !.saves = @ + 1, !.toast = "none"]
  /\ UNCHANGED <<questions, quiz_attempts, now, nextId, client, del,
                 directCalls, rpcDone, leaderboard, timeframe, nextQuestionId,
                 create>>

saveQuiz_quiz(isPublished, validQuestions) ==
  /\ edit.pc = "form"
  /\ edit.saves < MaxSaves
  /\ Len(validQuestions) # 0
  /\ \/ /\ quizzes' = IF QuizzesUpdatePolicy(Owner, edit.quiz, quizzes)
                      THEN [quizzes EXCEPT
                              ![edit.quiz].is_published = isPublished,
                              ![edit.quiz].total_questions = Len(validQuestions)]
                      ELSE quizzes
        /\ edit' = [edit EXCEPT !.pc = "delete", !.valid = validQuestions,
                                !.saves = @ + 1, !.toast = "none"]
     \/ /\ edit' = [SaveFailed EXCEPT !.saves = @ + 1]
        /\ UNCHANGED quizzes
  /\ UNCHANGED <<questions, quiz_attempts, now, nextId, client, del,
                 directCalls, rpcDone, leaderboard, timeframe, nextQuestionId,
                 create>>

\* saveQuiz, second statement: delete the existing questions
saveQuiz_delete ==
  /\ edit.pc = "delete"
  /\ \/ /\ questions' = IF QuestionsDeletePolicy(Owner, edit.quiz, quizzes)
                        THEN [questions EXCEPT ![edit.quiz] = <<>>] ELSE questions
        /\ edit' = [edit EXCEPT !.pc = "insert"]
     \/ /\ edit' = SaveFailed
        /\ UNCHANGED questions
  /\ UNCHANGED <<quizzes, quiz_attempts, now, nextId, client, del,
                 directCalls, rpcDone, leaderboard, timeframe, nextQuestionId,
                 create>>

QuestionsInsertPolicy(u, q, qz) == q \in DOMAIN qz /\ qz[q].created_by = u

\* saveQuiz, third statement: insert the valid questions as new rows
saveQuiz_insert ==
  /\ edit.pc = "insert"
  /\ \/ /\ QuestionsInsertPolicy(Owner, edit.quiz, quizzes)
        /\ questions' =
             [questions EXCEPT ![edit.quiz] =
                @ \o [i \in 1..Len(edit.valid) |->
                        [id |-> nextQuestionId + i, options |-> AllOptions,
                         correct_answer |-> edit.valid[i],
                         order_index |-> i - 1]]]
        /\ nextQuestionId' = nextQuestionId + Len(edit.valid)
        /\ edit' = [edit EXCEPT !.pc = "closed", !.quiz = "none", !.valid = <<>>,
                                !.toast = "success"]
     \/ /\ edit' = SaveFailed
        /\ UNCHANGED <<questions, nextQuestionId>>
  /\ UNCHANGED <<quizzes, quiz_attempts, now, nextId, client, del,
                 directCalls, rpcDone, leaderboard, timeframe,
                 create>>

\* ---------------------------------------------------------- CreateQuiz page
\* every question of the form has four option inputs
FormSlots == 4

\* String.prototype.trim on the texts of the model
trim(text) == IF text = " " THEN "" ELSE text

NonBlank(text) == trim(text) # ""

\* the options typed into a question: all four, the first two, the last two,
\* or one only
OptionInputs ==
  {<<"a", "a", "a", "a">>, <<"a", "a", "", "">>, <<"", "", "a", "a">>,
   <<"a", "", "", "">>}

\* a question of the form: its text, its four options (blank or not) and the
\* index of the option whose radio button is checked
FormQuestions ==
  [question_text : {"", "t"}, options : OptionInputs,
   correct_answer : 0..(FormSlots - 1)]

CreateForms == UNION {[1..n -> FormQuestions] : n \in 1..MaxQ}

\* questions.filter(q => q.question_text.trim() &&
\*                       q.options.filter(opt => opt.trim()).length >= 2)
IsValidQuestion(q) ==
  NonBlank(q.question_text) /\ Len(SelectSeq(q.options, NonBlank)) >= 2

validQuestionsOf(form) == SelectSeq(form, IsValidQuestion)

\* validQuestions.map((q, index) => ({options: q.options.filter(opt =>
\*   opt.trim()), correct_answer: q.correct_answer, order_index: index}))
questionsToInsert(valid, firstId) ==
  [i \in 1..Len(valid) |->
     [id |-> firstId + i, options |-> SelectSeq(valid[i].options, NonBlank),
      correct_answer |-> valid[i].correct_answer, order_index |-> i - 1]]

QuizzesInsertPolicy(u, row) == row.created_by = u

\* a row of quizzes as inserted by the page; total_attempts and average_score
\* take their column defaults
NewQuizRow(u, isPublished, n) ==
  [created_by |-> u, is_published |-> isPublished, total_questions |-> n,
   total_attempts |-> 0, average_score |-> Numeric(0, 1)]

InsertQuiz(qz, id, row) ==
  [q \in DOMAIN qz \cup {id} |-> IF q = id THEN row ELSE qz[q]]

\* DELETE FROM quizzes WHERE id = ..: the rows of questions go with it
DeleteQuiz(t, id) == [q \in DOMAIN t \ {id} |-> t[q]]

CreateFailed == [create EXCEPT !.pc = "form", !.toast = "error"]

\* saveQuiz up to the first write: validateQuizData, testDatabaseConnection
\* and the profile read of testUserPermissions
CreateQuiz_saveQuiz(isPublished, form) ==
  /\ create.pc = "form"
  /\ create.saves < MaxSaves
  /\ \/ /\ validQuestionsOf(form) # <<>>
        /\ create' = [create EXCEPT !.pc = "test", !.valid = validQuestionsOf(form),
                                    !.isPublished = isPublished, !.test = 0,
                                    !.quiz = 0, !.saves = @ + 1, !.toast = "none"]
     \/ create' = [CreateFailed EXCEPT !.saves = @ + 1]
  /\ UNCHANGED <<quizzes, questions, quiz_attempts, now, nextId, client, del,
                 directCalls, rpcDone, leaderboard, timeframe, edit,
                 nextQuestionId>>

\* testUserPermissions: insert of the test quiz
CreateQuiz_testInsert ==
  /\ create.pc = "test"
  /\ LET row == NewQuizRow(Owner, FALSE, 0)
         id == create.ids + 1
     IN \/ /\ QuizzesInsertPolicy(Owner, row)
           /\ quizzes' = InsertQuiz(quizzes, id, row)
           /\ questions' = InsertQuiz(questions, id, <<>>)
           /\ create' = [create EXCEPT !.pc = "test_delete", !.test = id, !.ids = id]
        \/ /\ create' = CreateFailed
           /\ UNCHANGED <<quizzes, questions>>
  /\ UNCHANGED <<quiz_attempts, now, nextId, client, del, directCalls, rpcDone,
                 leaderboard, timeframe, edit, nextQuestionId>>

\* testUserPermissions: delete of the test quiz; the result is not looked at
CreateQuiz_testDelete ==
  /\ create.pc = "test_delete"
  /\ \/ /\ quizzes' = DeleteQuiz(quizzes, create.test)
        /\ questions' = DeleteQuiz(questions, create.test)
     \/ UNCHANGED <<quizzes, questions>>
  /\ create' = [create EXCEPT !.pc = "quiz"]
  /\ UNCHANGED <<quiz_attempts, now, nextId, client, del, directCalls, rpcDone,
                 leaderboard, timeframe, edit, nextQuestionId>>

\* saveQuiz: insert of the quiz row
CreateQuiz_insertQuiz ==
  /\ create.pc = "quiz"
  /\ LET row == NewQuizRow(Owner, create.isPublished, Len(create.valid))
         id == create.ids + 1
     IN \/ /\ QuizzesInsertPolicy(Owner, row)
           /\ quizzes' = InsertQuiz(quizzes, id, row)
           /\ questions' = InsertQuiz(questions, id, <<>>)
           /\ create' = [create EXCEPT !.pc = "questions", !.quiz = id, !.ids = id]
        \/ /\ create' = CreateFailed
           /\ UNCHANGED <<quizzes, questions>>
  /\ UNCHANGED <<quiz_attempts, now, nextId, client, del, directCalls, rpcDone,
                 leaderboard, timeframe, edit, nextQuestionId>>

\* saveQuiz: insert of the questions; on an error the page goes on to delete
\* the quiz row
CreateQuiz_insertQuestions ==
  /\ create.pc = "questions"
  /\ \/ /\ QuestionsInsertPolicy(Owner, create.quiz, quizzes)
        /\ questions' = [questions EXCEPT ![create.quiz] =
                           @ \o questionsToInsert(create.valid, nextQuestionId)]
        /\ nextQuestionId' = nextQuestionId + Len(create.valid)
        /\ create' = [create EXCEPT !.pc = "done", !.toast = "success"]
     \/ /\ create' = [create EXCEPT !.pc = "cleanup"]
        /\ UNCHANGED <<questions, nextQuestionId>>
  /\ UNCHANGED <<quizzes, quiz_attempts, now, nextId, client, del, directCalls,
                 rpcDone, leaderboard, timeframe, edit>>

\* saveQuiz: delete of the quiz row after the questions failed; the result
\* is not looked at, then the error is thrown
CreateQuiz_cleanup ==
  /\ create.pc = "cleanup"
  /\ \/ /\ quizzes' = DeleteQuiz(quizzes, create.quiz)
        /\ questions' = DeleteQuiz(questions, create.quiz)
     \/ UNCHANGED <<quizzes, questions>>
  /\ create' = CreateFailed
  /\ UNCHANGED <<quiz_attempts, now, nextId, client, del, directCalls, rpcDone,
                 leaderboard, timeframe, edit, nextQuestionId>>

Next ==
  \/ \E c \in Clients, q \in QuizIds : fetchQuizData(c, q)
  \/ \E c \in Clients : startQuiz(c)
  \/ \E c \in Clients, i \in QuestionIds, a \in 0..(NumOptions - 1) :
       handleAnswerSelect(c, i, a)
  \/ \E c \in Clients : SubmitInsert(c)
  \/ \E c \in Clients : SubmitStats(c)
  \/ \E u \in Users, q \in QuizIds, s \in {0, 100} : update_quiz_stats_rpc(u, q, s)
  \/ \E q \in QuizIds : deleteQuiz_questions(q)
  \/ deleteQuiz_attempts
  \/ deleteQuiz_quiz

Spec == Init /\ [][Next]_vars

\* ------------------------------------------- the quiz owner's specification
\* The owner edits, publishes, unpublishes and deletes the quiz while one
\* page takes it.
NextOwner ==
  \/ \E q \in QuizIds : fetchQuizData("c1", q)
  \/ startQuiz("c1")
  \/ \E i \in QuestionIds, a \in 0..(NumOptions - 1) : handleAnswerSelect("c1", i, a)
  \/ SubmitInsert("c1")
  \/ SubmitStats("c1")
  \/ fetchResults_attempt("c1")
  \/ fetchResults_questions("c1")
  \/ \E q \in QuizIds, currentStatus \in BOOLEAN : togglePublishStatus(q, currentStatus)
  \/ \E q \in QuizIds : EditQuiz_fetchQuizData(q)
  \/ \E isPublished \in BOOLEAN, validQuestions \in Forms :
       saveQuiz_quiz(isPublished, validQuestions)
  \/ saveQuiz_delete
  \/ saveQuiz_insert
  \/ \E q \in QuizIds : deleteQuiz_questions(q)
  \/ deleteQuiz_attempts
  \/ deleteQuiz_quiz

SpecOwner == Init /\ [][NextOwner]_vars

\* ------------------------------------------------ the retake specification
\* One user takes a quiz, reads the results and takes the quiz again.
NextRetake ==
  \/ \E q \in QuizIds : fetchQuizData("c1", q)
  \/ startQuiz("c1")
  \/ \E i \in QuestionIds, a \in 0..(NumOptions - 1) : handleAnswerSelect("c1", i, a)
  \/ SubmitInsert("c1")
  \/ SubmitStats("c1")
  \/ fetchResults_attempt("c1")
  \/ fetchResults_questions("c1")
  \/ retakeQuiz("c1")

SpecRetake == Init /\ [][NextRetake]_vars

\* ------------------------------------------------ the creation specification
\* A user creates quizzes on the CreateQuiz page, starting from empty tables.
InitCreate ==
  /\ quizzes = <<>>
  /\ questions = <<>>
  /\ quiz_attempts = {}
  /\ now = Today
  /\ nextId = 0
  /\ client = [c \in Clients |-> ClientInit]
  /\ del = DelInit
  /\ directCalls = 0
  /\ rpcDone = [q \in QuizIds |-> 0]
  /\ leaderboard = <<>>
  /\ timeframe = "all"
  /\ edit = EditInit
  /\ nextQuestionId = 0
  /\ create = CreateInit

NextCreate ==
  \/ \E isPublished \in BOOLEAN, form \in CreateForms :
       CreateQuiz_saveQuiz(isPublished, form)
  \/ CreateQuiz_testInsert
  \/ CreateQuiz_testDelete
  \/ CreateQuiz_insertQuiz
  \/ CreateQuiz_insertQuestions
  \/ CreateQuiz_cleanup

SpecCreate == InitCreate /\ [][NextCreate]_vars

\* ------------------------------------------------------ get_user_leaderboard
\* date_trunc on a calendar of 7-day weeks and 30-day months counted from day 0
DaysPerWeek == 7
DaysPerMonth == 30
WeekStart(t) == t - (t % DaysPerWeek)
MonthStart(t) == t - (t % DaysPerMonth)

\* the WHERE clause of user_scores
\* a filter over the last DaysPerMonth or DaysPerWeek days instead
TimeFilter_rolling(time_filter, row, t) ==
  IF time_filter = "month" THEN row.completed_at >= t - DaysPerMonth
  ELSE IF time_filter = "week" THEN row.completed_at >= t - DaysPerWeek
  ELSE TRUE

\* a filter that knows 'all' and keeps no row for any other value
TimeFilter_allOnly(time_filter, row, t) ==
  IF time_filter = "month" THEN row.completed_at >= MonthStart(t)
  ELSE IF time_filter = "week" THEN row.completed_at >= WeekStart(t)
  ELSE time_filter = "all"

TimeFilter(time_filter, row, t) ==
  IF time_filter = "month" THEN row.completed_at >= MonthStart(t)
  ELSE IF time_filter = "week" THEN row.completed_at >= WeekStart(t)
  ELSE TRUE

\* WITH user_scores AS (SELECT user_id, SUM, COUNT, AVG ... GROUP BY user_id)
\* a query that counts the quizzes a user attempted instead of the attempts
user_scores_distinctQuizzes(rows, time_filter, t) ==
  LET kept == {r \in rows : TimeFilter(time_filter, r, t)}
      of(u) == {r \in kept : r.user_id = u}
  IN {[user_id |-> u, total_score |-> SumScore(of(u)),
       quiz_count |-> Cardinality({r.quiz_id : r \in of(u)}),
       average_score |-> AVG(of(u))] :
        u \in {r.user_id : r \in kept}}

user_scores(rows, time_filter, t) ==
  LET kept == {r \in rows : TimeFilter(time_filter, r, t)}
      of(u) == {r \in kept : r.user_id = u}
  IN {[user_id |-> u, total_score |-> SumScore(of(u)),
       quiz_count |-> Cardinality(of(u)), average_score |-> AVG(of(u))] :
        u \in {r.user_id : r \in kept}}

\* RANK() OVER (ORDER BY total_score DESC): one more than the number of rows
\* that sort strictly before this one
\* DENSE_RANK(): one more than the number of distinct totals above this one
DENSE_RANK(us, e) ==
  1 + Cardinality({x.total_score : x \in {y \in us : y.total_score > e.total_score}})

RANK(us, e) == 1 + Cardinality({x \in us : x.total_score > e.total_score})

\* every user has a profiles row (quiz_attempts.user_id references profiles)
Profiles == Users

Ranked(rows, time_filter, t) ==
  LET us == user_scores(rows, time_filter, t)
  IN {[user_id |-> e.user_id, total_score |-> e.total_score,
       quiz_count |-> e.quiz_count, average_score |-> e.average_score,
       rank |-> RANK(us, e)] : e \in {x \in us : x.user_id \in Profiles}}

\* ORDER BY rank ASC: any order of the rows that is ascending in rank
\* a query without the ORDER BY clause: the rows in any order
OrderedByRank_unordered(S) ==
  {f \in [1..Cardinality(S) -> S] :
     \A i, j \in 1..Cardinality(S) : i # j => f[i] # f[j]}

OrderedByRank(S) ==
  {f \in [1..Cardinality(S) -> S] :
     /\ \A i, j \in 1..Cardinality(S) : i # j => f[i] # f[j]
     /\ \A i, j \in 1..Cardinality(S) : i < j => f[i].rank <= f[j].rank}

get_user_leaderboard(rows, time_filter, t) == OrderedByRank(Ranked(rows, time_filter, t))

\* Leaderboard page: fetchLeaderboardData for the selected timeframe
fetchLeaderboardData(tf) ==
  /\ timeframe' = tf
  /\ leaderboard' \in get_user_leaderboard(quiz_attempts, tf, now)
  /\ UNCHANGED <<quizzes, questions, quiz_attempts, now, nextId, client, del,
                 directCalls, rpcDone, edit, nextQuestionId,
                 create>>

\* ---------------------------------------------- the ranking specification
\* The store holds, for every user, up to MaxPerUser attempts with every
\* answer right; one user may have a further attempt with half of them right.
\* All attempts were completed today, except that the first attempt of the
\* first user may be a day, ten days, eleven days or a year old.
UserNumber == [u1 |-> 1, u2 |-> 2, u3 |-> 3, u4 |-> 4]

Ages == {0, 1, 10, 11, 365}

RankRows(u, full, half, age) ==
  LET qs == QuestionRows(2)
      answersOf(i) == IF i <= full THEN [x \in {1, 2} |-> qs[x].correct_answer]
                      ELSE [x \in {1} |-> qs[1].correct_answer]
      cl(i) == [ClientInit EXCEPT !.quiz = "q1", !.questions = qs,
                                  !.answers = answersOf(i)]
  IN {AttemptRow(10 * UserNumber[u] + i, cl(i), u,
                 IF i = 1 THEN Today - age ELSE Today) :
        i \in 1..(full + half)}

InitRank ==
  /\ \E full \in [Users -> 0..MaxPerUser], half \in Users \cup {"none"},
        age \in Ages :
       quiz_attempts =
         UNION {RankRows(u, full[u], IF half = u THEN 1 ELSE 0,
                         IF u = "u1" THEN age ELSE 0) : u \in Users}
  /\ questions = [q \in QuizIds |-> QuestionRows(2)]
  /\ quizzes = [q \in QuizIds |->
                  [QuizRow(2) EXCEPT
                     !.total_attempts = Cardinality(AttemptsOf(quiz_attempts, q)),
                     !.average_score =
                        IF AttemptsOf(quiz_attempts, q) = {} THEN Numeric(0, 1)
                        ELSE AVG(AttemptsOf(quiz_attempts, q))]]
  /\ now = Today
  /\ nextId = 0
  /\ client = [c \in Clients |-> ClientInit]
  /\ del = DelInit
  /\ directCalls = 0
  /\ rpcDone = [q \in QuizIds |-> Cardinality(AttemptsOf(quiz_attempts, q))]
  /\ leaderboard = <<>>
  /\ timeframe = "all"
  /\ edit = EditInit
  /\ create = CreateInit
  /\ nextQuestionId = MaxQ

NextRank == \E tf \in {"all", "month", "week"} : fetchLeaderboardData(tf)

SpecRank == InitRank /\ [][NextRank]_vars

\* ---------------------------------------------- the scoring specification
\* Two pages have loaded a quiz of n questions. The first answered the first
\* k of them right and the next m of them wrong, the rest is unanswered; the
\* second answered right exactly the questions after the first k and left
\* the first k unanswered.
ScoreAnswers(qs, k, m) ==
  [i \in {qs[j].id : j \in 1..(k + m)} |->
     LET j == CHOOSE x \in 1..(k + m) : qs[x].id = i
     IN IF j <= k THEN qs[j].correct_answer
        ELSE (qs[j].correct_answer + 1) % NumOptions]

RestAnswers(qs, k) ==
  [i \in {qs[j].id : j \in (k + 1)..Len(qs)} |->
     LET j == CHOOSE x \in (k + 1)..Len(qs) : qs[x].id = i
     IN qs[j].correct_answer]

InitScore ==
  /\ \E n \in 1..MaxScoreQ :
       \E k \in 0..n : \E m \in {0, 1, n - k} :
         /\ k + m <= n
         /\ quizzes = [q \in QuizIds |-> QuizRow(n)]
         /\ questions = [q \in QuizIds |-> QuestionRows(n)]
         /\ client = [c \in Clients |->
                        [ClientInit EXCEPT
                           !.pc = "taking", !.quiz = "q1",
                           !.questions = QuestionRows(n),
                           !.answers = IF c = "c1"
                                       THEN ScoreAnswers(QuestionRows(n), k, m)
                                       ELSE RestAnswers(QuestionRows(n), k)]]
  /\ quiz_attempts = {}
  /\ now = Today
  /\ nextId = 0
  /\ del = DelInit
  /\ directCalls = 0
  /\ rpcDone = [q \in QuizIds |-> 0]
  /\ leaderboard = <<>>
  /\ timeframe = "all"
  /\ edit = EditInit
  /\ create = CreateInit
  /\ nextQuestionId = MaxQ

NextScore == \E c \in Clients : SubmitInsert(c) \/ SubmitStats(c)

SpecScore == InitScore /\ [][NextScore]_vars

\* ---------------------------------------------- the two-quiz specification
\* Two published quizzes with earlier attempts whose statistics are up to
\* date; one page takes each quiz, and update_quiz_stats is also called
\* directly.
StatQuizIds == {"q1", "q2"}

ClientQuiz == [c1 |-> "q1", c2 |-> "q2"]

\* the answers of a page that answers all questions right, or none
AnswerChoices == {ScoreAnswers(QuestionRows(MaxQ), k, 0) : k \in {0, MaxQ}}

\* earlier attempts of user u4 for quiz q, one per set of answers in as; the
\* ids of q1 precede those of q2
EarlierRows(q, as) ==
  {AttemptRow((IF q = "q1" THEN 0 ELSE 2) + (IF a = NoAnswers THEN 1 ELSE 2),
              [ClientInit EXCEPT !.quiz = q, !.questions = QuestionRows(MaxQ),
                                 !.answers = a],
              "u4", Today) : a \in as}

InitStats ==
  /\ \E pre \in [StatQuizIds -> SUBSET AnswerChoices] :
       /\ quiz_attempts = UNION {EarlierRows(q, pre[q]) : q \in StatQuizIds}
       /\ quizzes = [q \in StatQuizIds |->
                       [QuizRow(MaxQ) EXCEPT
                          !.total_attempts = Cardinality(pre[q]),
                          !.average_score = IF pre[q] = {} THEN Numeric(0, 1)
                                            ELSE AVG(EarlierRows(q, pre[q]))]]
  /\ questions = [q \in StatQuizIds |-> QuestionRows(MaxQ)]
  /\ \E ans \in [Clients -> AnswerChoices] :
       client = [c \in Clients |->
                   [ClientInit EXCEPT !.pc = "taking", !.quiz = ClientQuiz[c],
                                      !.questions = QuestionRows(MaxQ),
                                      !.answers = ans[c]]]
  /\ now = Today
  /\ nextId = 4
  /\ del = DelInit
  /\ directCalls = 0
  /\ rpcDone = [q \in StatQuizIds |-> 0]
  /\ leaderboard = <<>>
  /\ timeframe = "all"
  /\ edit = EditInit
  /\ create = CreateInit
  /\ nextQuestionId = MaxQ

NextStats ==
  \/ \E c \in Clients : SubmitInsert(c)
  \/ \E c \in Clients : SubmitStats(c)
  \/ \E u \in Users, q \in StatQuizIds, s \in {0, 100} : update_quiz_stats_rpc(u, q, s)

SpecStats == InitStats /\ [][NextStats]_vars

\* =================================================================== claims
RowsOf(q) == AttemptsOf(quiz_attempts, q)

\* k times the numeric x, computed exactly
RECURSIVE TimesFrac(_, _)
TimesFrac(f, k) ==
  IF f = <<>> THEN [frac |-> <<>>, carry |-> 0]
  ELSE LET p == TimesFrac(Tail(f), k)
           v == Head(f) * k + p.carry
       IN [frac |-> <<v % NBASE>> \o p.frac, carry |-> v \div NBASE]

Times(x, k) ==
  LET p == TimesFrac(x.frac, k)
  IN [whole |-> x.whole * k + p.carry, frac |-> StripZeros(p.frac)]

\* avg is the mean of the scores of rows, 0 when there are none
MeanIs(avg, rows) ==
  IF rows = {} THEN avg = Numeric(0, 1)
  ELSE /\ avg # NullNumeric
       /\ Times(avg, Cardinality(rows)) = Numeric(SumScore(rows), 1)

\* the numeric x is within k / 2 units of the 16th decimal place of the
\* integer n
NearInt(x, n, k) ==
  LET f == [i \in 1..5 |-> IF i <= Len(x.frac) THEN x.frac[i] ELSE 0]
      tail == f[4] * NBASE + f[5]
  IN \/ x = Numeric(n, 1)
     \/ /\ x.whole = n /\ Len(x.frac) <= 5
        /\ f[1] = 0 /\ f[2] = 0 /\ f[3] = 0
        /\ 2 * tail <= k * NBASE
     \/ /\ x.whole = n - 1 /\ Len(x.frac) <= 5
        /\ f[1] = NBASE - 1 /\ f[2] = NBASE - 1 /\ f[3] = NBASE - 1
        /\ 2 * (NBASE * NBASE - tail) <= k * NBASE

\* avg is the mean of the scores of rows as a numeric: exact when the number
\* of rows divides their sum, and otherwise rounded at the 16th decimal place
RoundedMeanIs(avg, rows) ==
  /\ avg # NullNumeric
  /\ NearInt(Times(avg, Cardinality(rows)), SumScore(rows), Cardinality(rows))
  /\ SumScore(rows) % Cardinality(rows) = 0
       => Times(avg, Cardinality(rows)) = Numeric(SumScore(rows), 1)

\* the submission that created row r went through update_quiz_stats
StatsApplied(r) ==
  \E c \in Clients : /\ client[c].attempt = r.id
                     /\ client[c].pc = "results"
                     /\ ~client[c].updateError

\* C1: in every reachable state every quiz has total_attempts equal to the
\* number of its quiz_attempts rows and average_score equal to the mean of
\* their scores (0 when it has none).
C1_StatsMatchAttempts ==
  \A q \in DOMAIN quizzes :
    /\ quizzes[q].total_attempts = Cardinality(RowsOf(q))
    /\ MeanIs(quizzes[q].average_score, RowsOf(q))

C3_NoLostUpdate ==
  \A q \in DOMAIN quizzes : quizzes[q].total_attempts = rpcDone[q]

\* both clients' calls and a direct call have completed for one quiz
C3_Witness ==
  \E q \in DOMAIN quizzes :
    /\ rpcDone[q] = 3
    /\ \A c \in Clients : client[c].pc = "results" /\ ~client[c].updateError

\* a recorded attempt of q whose update_quiz_stats call failed
Lagging(q) ==
  \E c \in Clients, r \in RowsOf(q) :
    client[c].attempt = r.id /\ client[c].pc = "results" /\ client[c].updateError

\* C4: after an update_quiz_stats call failed for a recorded attempt, the
\* next successful call for the quiz brings total_attempts and average_score
\* back into agreement with the attempts table.
C4_NextStatsHeals ==
  [][\A q \in DOMAIN quizzes :
       (Lagging(q) /\ q \in DOMAIN quizzes' /\ rpcDone'[q] = rpcDone[q] + 1)
       => /\ quizzes'[q].total_attempts = Cardinality(AttemptsOf(quiz_attempts', q))
          /\ MeanIs(quizzes'[q].average_score, AttemptsOf(quiz_attempts', q))]_vars

\* C5: when update_quiz_stats fails after the insert succeeded, the step
\* leaves the attempt rows alone, a warning is issued, and the submission
\* ends with the success toast and the results page of that attempt.
C5_StatsFailureKeepsAttempt ==
  [][\A c \in Clients :
       (client[c].pc = "stats" /\ client'[c].pc = "results" /\ client'[c].updateError)
       => /\ quiz_attempts' = quiz_attempts
          /\ client'[c].warned
          /\ client'[c].toast = "success"
          /\ client'[c].route = [page |-> "results", attempt |-> client[c].attempt]
          /\ client[c].attempt # 0]_vars

\* a finished submission whose stats call failed and whose row is persisted
C5_Witness ==
  \E c \in Clients, r \in quiz_attempts :
    /\ client[c].pc = "results" /\ client[c].updateError
    /\ r.id = client[c].attempt /\ r.user_id = ClientUser[c]
    /\ client[c].toast = "success"

\* C6: when the insert fails, the step adds no quiz_attempts row, leaves
\* every quiz's statistics alone, does not invoke update_quiz_stats, and
\* shows an error instead of the success toast and the results page.
C6_InsertFailureIsClean ==
  [][\A c \in Clients :
       (/\ client[c].pc = "taking" /\ client'[c] # client[c]
        /\ client'[c].answers = client[c].answers /\ client'[c].attempt = 0)
       => /\ quiz_attempts' = quiz_attempts
          /\ quizzes' = quizzes
          /\ rpcDone' = rpcDone
          /\ ~client'[c].rpcInvoked
          /\ client'[c].pc = "taking"
          /\ client'[c].toast = "error"
          /\ client'[c].route.page = "quiz"]_vars

\* a page whose submission failed: error shown, no row, still on the quiz
C6_Witness ==
  \E c \in Clients :
    /\ client[c].toast = "error" /\ ~client[c].rpcInvoked
    /\ client[c].pc = "taking" /\ client[c].attempt = 0
    /\ \A r \in quiz_attempts : r.user_id # ClientUser[c]

LbTotals == [i \in 1..Len(leaderboard) |-> leaderboard[i].total_score]
LbRanks == [i \in 1..Len(leaderboard) |-> leaderboard[i].rank]
TiedAt(i) == Cardinality({j \in 1..Len(leaderboard) : LbTotals[j] = LbTotals[i]})

RoundHalfUp(num, den) == (2 * num + den) \div (2 * den)

IsRight(qs, a, i) == qs[i].id \in DOMAIN a /\ a[qs[i].id] = qs[i].correct_answer
RightCount(qs, a) == Cardinality({i \in 1..Len(qs) : IsRight(qs, a, i)})

\* the rows created by the submissions of the pages, with the questions the
\* page scored them over
Submitted ==
  UNION {{<<client[c].questions, r>> :
            r \in {x \in quiz_attempts : x.id = client[c].attempt}} : c \in Clients}

\* C8: the score of a submission over a non-empty question list Q is
\* round-half-up(100 * c / |Q|), c being the number of questions of Q whose
\* entry in the answers equals correct_answer (no entry counts as wrong).
C8_ScoreIsRoundHalfUp ==
  \A s \in Submitted :
    s[2].score = RoundHalfUp(100 * RightCount(s[1], s[2].answers), Len(s[1]))

\* C9: every computed score, and the score of every row a submission
\* created, is an integer between 0 and 100.
C9_ScoreInRange ==
  /\ \A r \in quiz_attempts : r.score \in 0..100
  /\ \A c \in Clients :
       client[c].pc \in {"stats", "results"} => client[c].score \in 0..100

\* two of three answers right, one question unanswered
C9_Witness ==
  \E r \in quiz_attempts :
    /\ r.total_questions = 3 /\ r.score = 67
    /\ Cardinality(DOMAIN r.answers) = 2

\* C10: every answer right gives exactly 100, no answer right gives exactly 0.
C10_AllOrNothing ==
  \A s \in Submitted :
    /\ (\A i \in 1..Len(s[1]) : IsRight(s[1], s[2].answers, i)) => s[2].score = 100
    /\ (\A i \in 1..Len(s[1]) : ~IsRight(s[1], s[2].answers, i)) => s[2].score = 0

\* one submission with every answer right and one with none right, the
\* latter with a question left unanswered
C10_Witness ==
  \E s, t \in Submitted :
    /\ Len(s[1]) = MaxScoreQ /\ s[2].score = 100
    /\ \A i \in 1..Len(s[1]) : IsRight(s[1], s[2].answers, i)
    /\ Len(t[1]) = MaxScoreQ /\ t[2].score = 0
    /\ \A i \in 1..Len(t[1]) : ~IsRight(t[1], t[2].answers, i)
    /\ \E i \in 1..Len(t[1]) : t[1][i].id \notin DOMAIN t[2].answers

C12_NoAttemptsNoChange ==
  [][\A q \in DOMAIN quizzes :
       (rpcDone'[q] = rpcDone[q] + 1 /\ AttemptsOf(quiz_attempts, q) = {})
       => /\ q \in DOMAIN quizzes'
          /\ quizzes'[q].total_attempts = quizzes[q].total_attempts
          /\ quizzes'[q].average_score = quizzes[q].average_score]_vars

\* C13: a completed update_quiz_stats call for a quiz with attempt rows
\* writes the mean of the scores of those rows (as a numeric, rounded at the
\* 16th decimal place when the division is inexact), and writes the same
\* average_score whatever new_score it is given and whatever average_score
\* the quiz had before.
C13_AverageFromRows ==
  [][\A q \in DOMAIN quizzes :
       (rpcDone'[q] = rpcDone[q] + 1 /\ AttemptsOf(quiz_attempts, q) # {})
       => /\ q \in DOMAIN quizzes'
          /\ RoundedMeanIs(quizzes'[q].average_score, AttemptsOf(quiz_attempts, q))
          /\ \A s \in {0, 50, 100},
                a \in {Numeric(0, 1), Numeric(100, 3), Numeric(100, 1), NullNumeric} :
               update_quiz_stats([quizzes EXCEPT ![q].average_score = a],
                                 quiz_attempts, q, s)[q].average_score
                 = quizzes'[q].average_score]_vars

\* a submission with score 0 went through update_quiz_stats and the quiz
\* has average 50
C13_Witness ==
  \E c \in Clients, q \in DOMAIN quizzes :
    /\ client[c].pc = "results" /\ ~client[c].updateError
    /\ client[c].quiz = q /\ client[c].score = 0
    /\ quizzes[q].average_score = Numeric(50, 1)

\* the first day of the calendar period of the given length that holds day t
PeriodStart(t, len) == CHOOSE d \in 0..t : d % len = 0 /\ t - d < len

\* the attempts of user u that a window counts: all of them, or those
\* completed on day start or later
InWindow(u, w, start) ==
  {r \in quiz_attempts : r.user_id = u /\ (w = "all" \/ r.completed_at >= start)}

LbEntries(lb, u) == {i \in 1..Len(lb) : lb[i].user_id = u}

\* the Leaderboard page has fetched: before the first fetch it holds no rows
\* for the timeframe all although there are attempts
Fetched == leaderboard # <<>> \/ timeframe # "all" \/ quiz_attempts = {}

\* C14: the leaderboard fetched for window w counts, for every user, exactly
\* the attempts completed at or after the start of the current calendar month
\* (w = month) or week (w = week), and all attempts for w = all; a user
\* without such an attempt has no entry.
C14_WindowFilter ==
  Fetched =>
    LET start == PeriodStart(now, IF timeframe = "week" THEN DaysPerWeek
                                  ELSE DaysPerMonth)
    IN \A u \in Users :
         IF InWindow(u, timeframe, start) = {}
         THEN LbEntries(leaderboard, u) = {}
         ELSE \E i \in LbEntries(leaderboard, u) :
                leaderboard[i].quiz_count = Cardinality(InWindow(u, timeframe, start))

\* the month leaderboard has an entry for a user that leaves out that
\* user's attempt of a year ago
C14_Witness ==
  \E u \in Users :
    /\ timeframe = "month"
    /\ \E r \in quiz_attempts : r.user_id = u /\ r.completed_at = now - 365
    /\ \E i \in LbEntries(leaderboard, u) :
         leaderboard[i].quiz_count + 1 = Cardinality(InWindow(u, "all", 0))

\* the sum of the scores of a set of attempt rows, by their ids
RECURSIVE ScoreSum(_)
ScoreSum(rows) ==
  IF rows = {} THEN 0
  ELSE LET r == CHOOSE x \in rows : \A y \in rows : x.id <= y.id
       IN r.score + ScoreSum(rows \ {r})

\* the attempts of user u that the fetched leaderboard is about
Mine(u) == {r \in quiz_attempts : r.user_id = u /\ TimeFilter(timeframe, r, now)}

\* C15: a fetched leaderboard has, for every user with an attempt in the
\* window, exactly one entry; its total_score is the sum of the scores of
\* the user's attempts in the window, its quiz_count their number, and its
\* average_score their mean, so that total_score = quiz_count * average_score.
C15_Aggregates ==
  Fetched =>
    \A u \in Users :
      Mine(u) # {} =>
        /\ Cardinality(LbEntries(leaderboard, u)) = 1
        /\ \A i \in LbEntries(leaderboard, u) :
             /\ leaderboard[i].total_score = ScoreSum(Mine(u))
             /\ leaderboard[i].quiz_count = Cardinality(Mine(u))
             /\ MeanIs(leaderboard[i].average_score, Mine(u))
             /\ Times(leaderboard[i].average_score, leaderboard[i].quiz_count)
                  = Numeric(leaderboard[i].total_score, 1)

\* C15 (amended): as C15, with average_score the mean rounded to 16 decimal
\* places: quiz_count * average_score is total_score when quiz_count divides
\* total_score, and otherwise within quiz_count / 2 units of the 16th
\* decimal place of it.
C15_RoundedMean ==
  Fetched =>
    \A u \in Users :
      Mine(u) # {} =>
        /\ Cardinality(LbEntries(leaderboard, u)) = 1
        /\ \A i \in LbEntries(leaderboard, u) :
             /\ leaderboard[i].total_score = ScoreSum(Mine(u))
             /\ leaderboard[i].quiz_count = Cardinality(Mine(u))
             /\ leaderboard[i].average_score # NullNumeric
             /\ NearInt(Times(leaderboard[i].average_score, leaderboard[i].quiz_count),
                        leaderboard[i].total_score, leaderboard[i].quiz_count)
             /\ leaderboard[i].total_score % leaderboard[i].quiz_count = 0
                  => Times(leaderboard[i].average_score, leaderboard[i].quiz_count)
                       = Numeric(leaderboard[i].total_score, 1)

\* an entry over three attempts with scores 100, 100 and 50
C15_Witness ==
  \E i \in 1..Len(leaderboard) :
    /\ leaderboard[i].total_score = 250
    /\ leaderboard[i].quiz_count = 3
    /\ leaderboard[i].average_score = Numeric(250, 3)

\* C16: the fetched leaderboard is ascending in rank and non-increasing in
\* total_score.
C16_OrderedByRank ==
  \A i, j \in 1..Len(leaderboard) :
    i < j => /\ leaderboard[i].rank <= leaderboard[j].rank
             /\ leaderboard[i].total_score >= leaderboard[j].total_score

\* four entries with three different ranks
C16_Witness ==
  /\ Len(leaderboard) = 4
  /\ Cardinality({leaderboard[i].rank : i \in 1..4}) = 3

\* C17: no step lowers the total_attempts of a quiz that exists before and
\* after it.
C17_TotalAttemptsMonotone ==
  [][\A q \in DOMAIN quizzes \cap DOMAIN quizzes' :
       quizzes'[q].total_attempts >= quizzes[q].total_attempts]_vars

\* a quiz with a counted attempt has been edited and unpublished
C17_Witness ==
  \E q \in DOMAIN quizzes :
    /\ quizzes[q].total_attempts > 0
    /\ ~quizzes[q].is_published
    /\ edit.saves > 0 /\ edit.pc = "closed"
    /\ \E i \in 1..Len(questions[q]) : questions[q][i].id > MaxQ

\* C18: every step leaves every quiz_attempts row as it is, except that the
\* step that deletes a quiz removes the rows of that quiz.
C18_AppendOnly ==
  [][\A r \in quiz_attempts :
       \/ r \in quiz_attempts'
       \/ r.quiz_id \in DOMAIN quizzes /\ r.quiz_id \notin DOMAIN quizzes']_vars

\* the attempt a page recorded is gone together with its quiz
C18_Witness ==
  \E c \in Clients :
    /\ client[c].attempt # 0 /\ client[c].pc = "results"
    /\ client[c].quiz \notin DOMAIN quizzes
    /\ quiz_attempts = {}

\* C19: the attempt a results page has read back carries the score and the
\* answers the page submitted and, as total_questions, the number of
\* questions the page scored them over.
C19_RoundTrip ==
  \A c \in Clients :
    client[c].pc \in {"results_questions", "shown"} =>
      /\ client[c].result.id = client[c].attempt
      /\ client[c].result.score = score(client[c].questions, client[c].answers)
      /\ client[c].result.answers = client[c].answers
      /\ client[c].result.total_questions = Len(client[c].questions)
      /\ client[c].result.user_id = ClientUser[c]
      /\ client[c].result.quiz_id = client[c].quiz

\* the page shows an attempt with an answer in it, read back after the quiz
\* was edited
C19_Witness ==
  \E c \in Clients :
    /\ client[c].pc = "shown"
    /\ client[c].result.score = 100
    /\ DOMAIN client[c].result.answers # {}
    /\ edit.saves > 0

\* the leaderboard entries of user u over all attempts in rows
EntriesOf(rows, u, t) == {e \in Ranked(rows, "all", t) : e.user_id = u}

\* the earlier attempts that the row a page is about to insert repeats
SameAsMine(c) ==
  {r \in quiz_attempts : /\ r.user_id = ClientUser[c]
                         /\ r.quiz_id = client[c].quiz
                         /\ r.answers = client[c].answers}

\* C20: a successful submission that repeats an earlier attempt of the same
\* user for the same quiz with the same answers adds one more row with an id
\* of its own and keeps the earlier rows; the leaderboard then counts one
\* more attempt of the user and the score once more; and the completed
\* update_quiz_stats of a repeated submission counts one more attempt and
\* averages over all rows of the quiz.
C20_NoDedup ==
  [][\A c \in Clients :
       /\ (/\ client[c].pc = "taking" /\ client'[c].pc = "stats"
           /\ SameAsMine(c) # {})
          => \E r \in quiz_attempts' \ quiz_attempts :
               /\ quiz_attempts' = quiz_attempts \cup {r}
               /\ \A x \in quiz_attempts : x.id # r.id
               /\ r.user_id = ClientUser[c] /\ r.answers = client[c].answers
               /\ \A x \in SameAsMine(c) : x.score = r.score
               /\ \A e \in EntriesOf(quiz_attempts, ClientUser[c], now) :
                  \E f \in EntriesOf(quiz_attempts', ClientUser[c], now') :
                    /\ f.quiz_count = e.quiz_count + 1
                    /\ f.total_score = e.total_score + r.score
               /\ EntriesOf(quiz_attempts, ClientUser[c], now) # {}
       /\ (/\ client[c].pc = "stats" /\ client'[c].pc = "results"
           /\ ~client'[c].updateError
           /\ Cardinality(AttemptsOf(quiz_attempts, client[c].quiz)) > 1)
          => /\ quizzes'[client[c].quiz].total_attempts =
                  quizzes[client[c].quiz].total_attempts + 1
             /\ \A s \in 0..100 :
                  (\A x \in AttemptsOf(quiz_attempts, client[c].quiz) : x.score = s)
                  => quizzes'[client[c].quiz].average_score = Numeric(s, 1)]_vars

\* two rows of one user for one quiz with the same answers and the same
\* score, both counted by the quiz statistics and by the leaderboard
C20_Witness ==
  \E r1, r2 \in quiz_attempts :
    /\ r1.id # r2.id
    /\ r1.user_id = r2.user_id /\ r1.quiz_id = r2.quiz_id
    /\ r1.answers = r2.answers /\ r1.score = 100 /\ r2.score = 100
    /\ quizzes[r1.quiz_id].total_attempts = 2
    /\ quizzes[r1.quiz_id].average_score = Numeric(100, 1)
    /\ \E e \in EntriesOf(quiz_attempts, r1.user_id, now) :
         e.quiz_count = 2 /\ e.total_score = 200

\* a step of the MyQuizzes or EditQuiz page, which the creator of the quizzes
\* runs; every other step is one that a user who is not the creator takes
CreatorStep == del' # del \/ edit' # edit

\* C21: only the creator of a quiz changes or deletes its row or its
\* questions: a step that is not the creator's leaves every field of every
\* quiz row, total_attempts and average_score included, and the questions of
\* every quiz as they were.
C21_OnlyCreatorChanges ==
  [][~CreatorStep =>
       /\ DOMAIN quizzes' = DOMAIN quizzes
       /\ \A q \in DOMAIN quizzes : quizzes'[q] = quizzes[q]
       /\ questions' = questions]_vars

\* C22: every persisted question has at least two options and a
\* correct_answer that is an index into them.
C22_CorrectAnswerInRange ==
  \A q \in DOMAIN questions :
    \A i \in 1..Len(questions[q]) :
      /\ Len(questions[q][i].options) >= 2
      /\ questions[q][i].correct_answer >= 0
      /\ questions[q][i].correct_answer < Len(questions[q][i].options)

\* C23: in the state in which a run of the EditQuiz page's saveQuiz ends,
\* with success or with an error, the quiz's total_questions is the number
\* of its question rows (no deleteQuiz has touched the quiz).
C23_TotalQuestionsIsCount ==
  [][(/\ edit.pc \in {"form", "delete", "insert"}
      /\ edit'.pc \in {"form", "closed"}
      /\ edit'.toast \in {"success", "error"}
      /\ edit' # edit
      /\ del'.quiz = "none"
      /\ edit.quiz \in DOMAIN quizzes')
     => quizzes'[edit.quiz].total_questions = Len(questions'[edit.quiz])]_vars

\* C28: quiz creation leaves no quiz without questions: when the insert of
\* the questions has failed the new quiz row is gone once saveQuiz ends, no
\* run of saveQuiz ends with its quiz having no questions, and a successful
\* run ends with the quiz holding exactly the valid questions of the form,
\* order_index 0..n-1.
C28_NoQuizWithoutQuestions ==
  [][/\ (create.pc = "cleanup" /\ create'.pc = "form")
          => create.quiz \notin DOMAIN quizzes'
     /\ (create.pc # create'.pc /\ create'.pc \in {"form", "done"})
          => (create.quiz \in DOMAIN quizzes' => Len(questions'[create.quiz]) > 0)
     /\ (create.pc = "questions" /\ create'.pc = "done")
          => /\ create.quiz \in DOMAIN quizzes'
             /\ Len(questions'[create.quiz]) = Len(create.valid)
             /\ quizzes'[create.quiz].total_questions = Len(create.valid)
             /\ \A i \in 1..Len(create.valid) :
                  /\ questions'[create.quiz][i].order_index = i - 1
                  /\ questions'[create.quiz][i].correct_answer
                       = create.valid[i].correct_answer
                  /\ questions'[create.quiz][i].options
                       = SelectSeq(create.valid[i].options, NonBlank)]_vars

\* C24: a completed update_quiz_stats call for quiz a leaves the row of
\* every other quiz and every quiz_attempts row as they were, and commutes
\* with a call for any other quiz b: calling b after it gives the same
\* quizzes as calling b before it.
C24_IndependentQuizzes ==
  [][\A a \in DOMAIN quizzes :
       rpcDone'[a] = rpcDone[a] + 1
       => /\ quiz_attempts' = quiz_attempts
          /\ \A b \in DOMAIN quizzes \ {a} :
               /\ quizzes'[b] = quizzes[b]
               /\ \A s \in {0, 100} :
                    update_quiz_stats(quizzes', quiz_attempts', b, s)
                      = update_quiz_stats(update_quiz_stats(quizzes, quiz_attempts, b, s),
                                          quiz_attempts, a, 0)]_vars

\* both quizzes have attempts and went through update_quiz_stats, and their
\* statistics differ
C24_Witness ==
  /\ DOMAIN quizzes = StatQuizIds
  /\ rpcDone["q1"] > 0 /\ rpcDone["q2"] > 0
  /\ AttemptsOf(quiz_attempts, "q1") # {} /\ AttemptsOf(quiz_attempts, "q2") # {}
  /\ quizzes["q1"].average_score # quizzes["q2"].average_score
  /\ quizzes["q1"].total_attempts # quizzes["q2"].total_attempts

\* C25: scoring is deterministic and has no side effect: a run of the
\* submit handler leaves the page's questions and answers and the quizzes
\* and questions tables as they were, persists nothing but the attempt row,
\* and scoring the same questions and answers again gives the score that
\* the row carries.
C25_ScoringIsPure ==
  [][\A c \in Clients :
       (client[c].pc = "taking" /\ client'[c] # client[c])
       => /\ client'[c].questions = client[c].questions
          /\ client'[c].answers = client[c].answers
          /\ quizzes' = quizzes /\ questions' = questions
          /\ \/ quiz_attempts' = quiz_attempts
             \/ \E r \in quiz_attempts' \ quiz_attempts :
                  /\ quiz_attempts' = quiz_attempts \cup {r}
                  /\ r.score = score(client'[c].questions, client'[c].answers)
                  /\ r.score = score(client[c].questions, client[c].answers)]_vars

\* a page that scored its answers twice, the insert having failed the first
\* time, and recorded a score strictly between 0 and 100
C25_Witness ==
  \E c \in Clients, r \in quiz_attempts :
    /\ client[c].pc = "stats" /\ client[c].toast = "error"
    /\ r.id = client[c].attempt
    /\ r.score > 0 /\ r.score < 100
    /\ r.score = score(client[c].questions, client[c].answers)

\* C27: with submissions only (the insert followed by update_quiz_stats,
\* either of which may fail), a quiz's total_attempts never exceeds the
\* number of its quiz_attempts rows.
C27_StatsNeverAhead ==
  \A q \in DOMAIN quizzes :
    quizzes[q].total_attempts <= Cardinality(AttemptsOf(quiz_attempts, q))

\* one page's insert has failed while the other page's submission went
\* through update_quiz_stats
C27_Witness ==
  \E c, d \in Clients :
    /\ client[c].pc = "taking" /\ client[c].toast = "error"
    /\ client[d].pc = "results" /\ ~client[d].updateError
    /\ quizzes[client[d].quiz].total_attempts = 1
    /\ Cardinality(AttemptsOf(quiz_attempts, client[d].quiz)) = 1

\* C26: the number of correct answers that a results page counts from the
\* quiz's current questions and the stored answers agrees with the stored
\* score: score = round(100 * correct / total_questions), also after the
\* quiz has been edited (stated for a page that was given as many questions
\* as the attempt was scored over).
C26_RecountMatchesScore ==
  \A c \in Clients :
    (/\ client[c].pc = "shown"
     /\ Len(client[c].resultQuestions) = client[c].result.total_questions) =>
      client[c].result.score =
        MathRound(FMul(FDiv(QuizResults_correctAnswers(client[c]),
                            client[c].result.total_questions), 100))


\* C29: deleteQuiz deletes questions, then attempts, then the quiz row, and
\* stops at the first failing statement: a step takes a quiz row away only as
\* the third statement of a deleteQuiz for that quiz, the third statement is
\* reached only from the second and the second only from the first with the
\* questions of the quiz gone, a statement that reports an error ends the
\* deleteQuiz and leaves the tables as they are, and after the successful
\* third statement no question and no attempt references the quiz.
C29_DeleteOrder ==
  [][/\ (DOMAIN quizzes' # DOMAIN quizzes) =>
          /\ del.pc = "quiz"
          /\ DOMAIN quizzes' = DOMAIN quizzes \ {del.quiz}
     /\ (del'.pc = "quiz" /\ del.pc # "quiz") =>
          /\ del.pc = "attempts"
          /\ del'.toast = del.toast
     /\ (del'.pc = "attempts" /\ del.pc # "attempts") =>
          /\ del.pc = "idle"
          /\ del'.toast = "none"
          /\ questions'[del'.quiz] = <<>>
     /\ (del'.pc # del.pc /\ del'.pc = "idle" /\ del'.toast = "error") =>
          UNCHANGED <<quizzes, questions, quiz_attempts>>
     /\ (del.pc = "quiz" /\ del'.pc = "idle" /\ del'.toast = "success") =>
          /\ del.quiz \notin DOMAIN quizzes'
          /\ questions'[del.quiz] = <<>>
          /\ \A r \in quiz_attempts' : r.quiz_id # del.quiz]_vars

\* a quiz with an attempt has been deleted
C29_Witness ==
  /\ del.pc = "idle"
  /\ del.toast = "success"
  /\ del.quiz \in QuizIds
  /\ del.quiz \notin DOMAIN quizzes
  /\ nextId > 0
  /\ quiz_attempts = {}
  /\ questions[del.quiz] = <<>>

\* a value of time_filter that the function does not name
OtherFilters == {"year"}

\* C30: every user that get_user_leaderboard lists for 'week' or 'month' is
\* listed for 'all' with a quiz_count and a total_score that are no smaller,
\* and a time_filter other than 'month' and 'week' gives the result of 'all'.
C30_NarrowerNeverAdds ==
  LET all == Ranked(quiz_attempts, "all", now)
  IN /\ \A w \in {"week", "month"} :
          \A e \in Ranked(quiz_attempts, w, now) :
            \E a \in all : /\ a.user_id = e.user_id
                           /\ e.quiz_count <= a.quiz_count
                           /\ e.total_score <= a.total_score
     /\ \A tf \in OtherFilters :
          get_user_leaderboard(quiz_attempts, tf, now)
            = get_user_leaderboard(quiz_attempts, "all", now)

\* the page shows a week in which a user has fewer attempts and a smaller
\* total than overall
C30_Witness ==
  /\ timeframe = "week"
  /\ leaderboard # <<>>
  /\ \E i \in 1..Len(leaderboard) :
       \E a \in Ranked(quiz_attempts, "all", now) :
         /\ a.user_id = leaderboard[i].user_id
         /\ leaderboard[i].quiz_count < a.quiz_count
         /\ leaderboard[i].total_score < a.total_score
====
